---- MODULE Spec2Model ----
(***************************************************************************)
(* Model of the two labs of the repository.                                *)
(*   Lab02_Logic/PS4/main.py : Literal, Clause, KnowledgeBase and the      *)
(*                             resolution loop pl_resolution               *)
(*   Lab01_Search/student_functions.py : UCS and GBFS                      *)
(*                                                                         *)
(* A Python str is a sequence of one-character strings.  A Python list or  *)
(* tuple is a sequence.  A Clause object is the list of its literals.      *)
(* A Python set of Clause objects is a set of such lists: two members of   *)
(* a Python set are one member exactly when their hashes agree and they    *)
(* compare equal, and for Clause that is exactly when the two literal      *)
(* lists are the same list (Clause_hash, Clause_eq below).                 *)
(***************************************************************************)
EXTENDS Integers, Sequences, FiniteSets, TLC

\* ------------------------------------------------------------------ bounds
NumSymbols == 2     \* size of the symbol alphabet of the generated inputs
MaxLiterals == 6    \* literals written in a generated input, query included
MaxChars   == 3     \* characters of a raw input line
MaxAdds    == 2     \* add_literal calls on one Clause object
NumNodes   == 3     \* nodes of a generated graph
MaxWeight  == 2     \* largest edge weight of a generated graph

\* ------------------------------------------------------------ characters
Letters == <<"A", "B", "C", "D">>
Symbols == {Letters[i] : i \in 1..NumSymbols}

\* The characters the inputs are written with, in code point order
\* (Python compares one-character strings by code point).
CharOrder == <<" ", "-", "A", "B", "C", "D", "O", "R">>
Ord(c) == CHOOSE i \in 1..Len(CharOrder) : CharOrder[i] = c

Range(s) == {s[i] : i \in 1..Len(s)}

\* --------------------------------------------------------------- Literal
Literal(symbol, negation) == [symbol |-> symbol, negation |-> negation]

\* Literal.__eq__
Literal_eq(l1, l2) == l1.symbol = l2.symbol /\ l1.negation = l2.negation

\* Literal.__repr__ : '-X' or 'X'
Literal_repr(l) == IF l.negation THEN <<"-", l.symbol>> ELSE <<l.symbol>>

\* Literal.__hash__ : the hash of the string '-X' or 'X'; two hashes agree
\* when the hashed strings agree.
Literal_hash(l) == IF l.negation THEN <<"-", l.symbol>> ELSE <<l.symbol>>

\* Literal.__lt__ : by symbol, then False < True on the negation flag
Literal_lt(l1, l2) ==
    IF l1.symbol # l2.symbol
    THEN Ord(l1.symbol) < Ord(l2.symbol)
    ELSE (~l1.negation) /\ l2.negation

\* Literal.negate
negate(l) == [l EXCEPT !.negation = ~l.negation]

\* Literal.is_opposite
is_opposite(l1, l2) == l1.negation # l2.negation /\ l1.symbol = l2.symbol

\* str.strip
RECURSIVE lstrip(_)
lstrip(s) == IF s # <<>> /\ Head(s) = " " THEN lstrip(Tail(s)) ELSE s
RECURSIVE rstrip(_)
rstrip(s) ==
    IF s # <<>> /\ s[Len(s)] = " " THEN rstrip(SubSeq(s, 1, Len(s) - 1)) ELSE s
strip(s) == rstrip(lstrip(s))

\* Literal.parse_literal raises IndexError on string_literal[0] of an empty
\* string and on string_literal[1] of the string '-'.
parse_literal_raises(string_literal) ==
    LET s == strip(string_literal)
    IN  s = <<>> \/ (s[1] = "-" /\ Len(s) < 2)

\* Literal.parse_literal, where it returns
parse_literal(string_literal) ==
    LET s == strip(string_literal)
    IN  IF s[1] = "-" THEN Literal(s[2], TRUE) ELSE Literal(s[1], FALSE)

\* ---------------------------------------------------------------- Clause
\* Clause.__eq__ : the sets of literals agree
Clause_eq(c1, c2) == Range(c1) = Range(c2)

\* Clause.__hash__ : hash(tuple(self.literals)), a function of the tuple of
\* the literals' hashes in list order
Clause_hash(c) == [i \in 1..Len(c) |-> Literal_hash(c[i])]

\* Clause.is_empty
is_empty(c) == Len(c) = 0

\* Mutant: only the first two literals are compared
is_meaningless_first_pair(c) == Len(c) >= 2 /\ is_opposite(c[1], c[2])

\* Clause.is_meaningless : two neighbours of the list are opposite
is_meaningless(c) == \E index \in 1..(Len(c) - 1) : is_opposite(c[index], c[index + 1])

\* sorted(S) for a set of literals, by Literal.__lt__
RECURSIVE sorted(_)
sorted(S) ==
    IF S = {} THEN <<>>
    ELSE LET m == CHOOSE x \in S : \A y \in S \ {x} : Literal_lt(x, y)
         IN  <<m>> \o sorted(S \ {m})

\* Clause.clean : self.literals = sorted(set(self.literals))
clean(c) == sorted(Range(c))

\* Mutant: the literals are left as parsed
negate_literals_skipped(c) == c

\* Clause.negate_literals
negate_literals(c) == [i \in 1..Len(c) |-> negate(c[i])]

\* Clause.clone_without_literal
clone_without_literal(c, literal) == SelectSeq(c, LAMBDA lit : ~Literal_eq(lit, literal))

\* Clause.merge
merge(clause1, clause2) == clean(clause1 \o clause2)

\* The new_clause values Clause.resolve builds and does not skip
resolve_kept(clause1, clause2) ==
    {nc \in {merge(clone_without_literal(clause1, clause1[i]),
                   clone_without_literal(clause2, clause2[j])) :
                 <<i, j>> \in {p \in (1..Len(clause1)) \X (1..Len(clause2)) :
                                 is_opposite(clause1[p[1]], clause2[p[2]])}} :
        ~is_meaningless(nc)}

\* Clause.resolve : (resolvents, is_empty)
resolve(clause1, clause2) ==
    [resolvents |-> resolve_kept(clause1, clause2),
     is_empty   |-> \E nc \in resolve_kept(clause1, clause2) : is_empty(nc)]

\* ------------------------------------------------------------- str, list
\* str.split('OR') : the pieces between the occurrences of 'OR'
RECURSIVE split_OR(_)
split_OR(s) ==
    IF \E i \in 1..(Len(s) - 1) : s[i] = "O" /\ s[i + 1] = "R"
    THEN LET i == CHOOSE k \in 1..(Len(s) - 1) :
                     /\ s[k] = "O" /\ s[k + 1] = "R"
                     /\ \A m \in 1..(k - 1) : ~(s[m] = "O" /\ s[m + 1] = "R")
         IN  <<SubSeq(s, 1, i - 1)>> \o split_OR(SubSeq(s, i + 2, Len(s)))
    ELSE <<s>>

\* Clause.parse_clause raises when parse_literal raises on one of the pieces
parse_clause_raises(string_clause) ==
    LET string_literals == split_OR(strip(string_clause))
    IN  \E i \in 1..Len(string_literals) : parse_literal_raises(string_literals[i])

\* Clause.parse_clause, where it returns
parse_clause(string_clause) ==
    LET string_literals == split_OR(strip(string_clause))
    IN  clean([i \in 1..Len(string_literals) |-> parse_literal(string_literals[i])])

\* --------------------------------------------------------- KnowledgeBase
\* The first loop of build_knowledge_base over the pieces of alpha, from
\* piece k on: the list self.clauses and whether the loop raised.
RECURSIVE build_alpha(_, _, _)
build_alpha(acc, alpha_literals, k) ==
    IF k > Len(alpha_literals) THEN [clauses |-> acc, raised |-> FALSE]
    ELSE IF parse_clause_raises(alpha_literals[k])
         THEN [clauses |-> acc, raised |-> TRUE]
         ELSE build_alpha(Append(acc, negate_literals(parse_clause(alpha_literals[k]))),
                          alpha_literals, k + 1)

\* The second loop of build_knowledge_base over clause_strings, from k on
RECURSIVE build_support(_, _, _)
build_support(acc, strings, k) ==
    IF k > Len(strings) THEN [clauses |-> acc, raised |-> FALSE]
    ELSE IF parse_clause_raises(strings[k])
         THEN [clauses |-> acc, raised |-> TRUE]
         ELSE build_support(Append(acc, clean(parse_clause(strings[k]))), strings, k + 1)

\* KnowledgeBase.build_knowledge_base on a knowledge base holding self_clauses
build_knowledge_base(self_clauses, alpha, strings) ==
    LET first == build_alpha(self_clauses, split_OR(strip(alpha)), 1)
    IN  IF first.raised THEN first ELSE build_support(first.clauses, strings, 1)

\* One pass of the for loop of pl_resolution over combinations(input_clauses, 2).
\* Every pair of distinct members is visited once, in the order the set
\* happens to iterate in.
pairs(S) == {p \in SUBSET S : Cardinality(p) = 2}
first_of(p) == CHOOSE c \in p : TRUE
second_of(p) == CHOOSE c \in p : c # first_of(p)
round_new(S) == UNION {resolve(first_of(p), second_of(p)).resolvents : p \in pairs(S)}
\* Mutant: the is_empty result of resolve is dropped
round_empty_dropped(S) == FALSE
round_empty(S) == \E p \in pairs(S) : resolve(first_of(p), second_of(p)).is_empty

\* Mutant: the resolvents are recorded without the difference
diff_clauses_skipped(new, S) == new

\* diff_clauses = new.difference(input_clauses)
diff_clauses(new, S) == new \ S

\* Clause.__repr__ : the literals joined by ' OR ', or '{}'
RECURSIVE join_OR(_)
join_OR(strs) ==
    IF Len(strs) = 1 THEN strs[1]
    ELSE strs[1] \o <<" ", "O", "R", " ">> \o join_OR(Tail(strs))
Clause_repr(c) ==
    IF c = <<>> THEN <<"{", "}">>
    ELSE join_OR([i \in 1..Len(c) |-> Literal_repr(c[i])])

\* ------------------------------------------------------------------ state
VARIABLES
    alpha_string,      \* build_knowledge_base: argument alpha_string
    clause_strings,    \* build_knowledge_base: argument clause_strings
    clauses,           \* KnowledgeBase.clauses
    input_clauses,     \* pl_resolution: input_clauses
    output_clauses,    \* pl_resolution: output_clauses
    is_unsatisfiable,  \* pl_resolution: is_unsatisfiable
    entailed,          \* pl_resolution: the returned verdict
    pc,                \* where main() stands
    query,             \* the literals alpha_string was written from
    support,           \* the clauses clause_strings were written from
    clause1,           \* Clause objects handed to the Clause methods
    clause2,
    resolved,          \* what Clause.resolve returned for them
    matrix, start, end,            \* arguments of UCS and GBFS (end is reassigned)
    end_arg,                       \* the end the call was made with
    frontier, visited, costs, path \* their locals and results

vars == <<alpha_string, clause_strings, clauses, input_clauses, output_clauses,
          is_unsatisfiable, entailed, pc, query, support, clause1, clause2,
          resolved, matrix, start, end, end_arg, frontier, visited, costs, path>>

logic_vars  == <<alpha_string, clause_strings, clauses, input_clauses,
                 output_clauses, is_unsatisfiable, entailed, query, support>>
clause_vars == <<clause1, clause2, resolved>>
search_vars == <<matrix, start, end, end_arg, frontier, visited, costs, path>>

\* None, where a node or a verdict is expected
None == -1
NoResult == [resolvents |-> {}, is_empty |-> FALSE]

LogicIdle ==
    /\ alpha_string = <<>> /\ clause_strings = <<>> /\ clauses = <<>>
    /\ input_clauses = {} /\ output_clauses = <<>> /\ is_unsatisfiable = FALSE
    /\ entailed = "None" /\ query = <<>> /\ support = <<>>
ClauseIdle == clause1 = <<>> /\ clause2 = <<>> /\ resolved = NoResult
SearchIdle ==
    /\ matrix = <<>> /\ start = 0 /\ end = 0 /\ end_arg = 0
    /\ frontier = {} /\ visited = <<>> /\ costs = <<>> /\ path = <<>>

\* ----------------------------------------------------------------- inputs
Literals == {Literal(s, b) : s \in Symbols, b \in BOOLEAN}

RECURSIVE reversed(_)
reversed(s) == IF s = <<>> THEN <<>> ELSE Append(reversed(Tail(s)), Head(s))

\* A set of clauses as a list, in some order
RECURSIVE as_list(_)
as_list(S) ==
    IF S = {} THEN <<>>
    ELSE LET c == CHOOSE x \in S : TRUE IN <<c>> \o as_list(S \ {c})

\* The clauses an input file (read_input) is written from: any non-empty
\* list of distinct literals, written first literal last.
ClauseTexts == {reversed(sorted(L)) : L \in (SUBSET Literals) \ {{}}}

\* The sets of such clauses that hold at most b literals in all
RECURSIVE clause_sets(_)
clause_sets(b) ==
    {{}} \cup UNION {LET rest == clause_sets(b - w)
                     IN  {T \cup {c} : T \in rest, c \in {x \in ClauseTexts : Len(x) = w}} :
                     w \in 1..b}

RECURSIVE total_literals(_)
total_literals(S) ==
    IF S = <<>> THEN 0 ELSE Len(Head(S)) + total_literals(Tail(S))

Supports == {as_list(S) : S \in clause_sets(MaxLiterals - 1)}
Inputs ==
    {in \in ClauseTexts \X Supports : Len(in[1]) + total_literals(in[2]) <= MaxLiterals}

\* ------------------------------------------------------- main(): the run
Init ==
    /\ \E in \in Inputs :
          /\ query = in[1]
          /\ support = in[2]
          /\ alpha_string = Clause_repr(in[1])
          /\ clause_strings = [i \in 1..Len(in[2]) |-> Clause_repr(in[2][i])]
    /\ clauses = <<>>
    /\ input_clauses = {} /\ output_clauses = <<>> /\ is_unsatisfiable = FALSE
    /\ entailed = "None"
    /\ pc = "build"
    /\ ClauseIdle /\ SearchIdle

\* kb.build_knowledge_base(alpha, clauses)
Build ==
    /\ pc = "build"
    /\ LET r == build_knowledge_base(clauses, alpha_string, clause_strings)
       IN  /\ clauses' = r.clauses
           /\ pc' = IF r.raised THEN "raised" ELSE "resolve"
    /\ UNCHANGED <<alpha_string, clause_strings, input_clauses, output_clauses,
                   is_unsatisfiable, entailed, query, support>>
    /\ UNCHANGED <<clause_vars, search_vars>>

\* kb.pl_resolution(), up to the loop
Enter ==
    /\ pc = "resolve"
    /\ input_clauses' = Range(clauses)
    /\ output_clauses' = <<>>
    /\ is_unsatisfiable' = FALSE
    /\ pc' = "loop"
    /\ UNCHANGED <<alpha_string, clause_strings, clauses, entailed, query, support>>
    /\ UNCHANGED <<clause_vars, search_vars>>

\* Mutant: the loop ends on 'if not new' in place of 'if not diff_clauses'
Round_tests_new ==
    /\ pc = "loop"
    /\ LET new   == round_new(input_clauses)
           unsat == is_unsatisfiable \/ round_empty(input_clauses)
           diff  == diff_clauses(new, input_clauses)
       IN  /\ output_clauses' = Append(output_clauses, diff)
           /\ input_clauses' = input_clauses \cup new
           /\ is_unsatisfiable' = unsat
           /\ IF unsat THEN pc' = "done" /\ entailed' = "True"
              ELSE IF new = {} THEN pc' = "done" /\ entailed' = "False"
              ELSE pc' = "loop" /\ entailed' = entailed
    /\ UNCHANGED <<alpha_string, clause_strings, clauses, query, support>>
    /\ UNCHANGED <<clause_vars, search_vars>>

\* Mutant: 'input_clauses = new' in place of 'input_clauses.update(new)'
Round_assigns_new ==
    /\ pc = "loop"
    /\ LET new   == round_new(input_clauses)
           unsat == is_unsatisfiable \/ round_empty(input_clauses)
           diff  == diff_clauses(new, input_clauses)
       IN  /\ output_clauses' = Append(output_clauses, diff)
           /\ input_clauses' = new
           /\ is_unsatisfiable' = unsat
           /\ IF unsat THEN pc' = "done" /\ entailed' = "True"
              ELSE IF diff = {} THEN pc' = "done" /\ entailed' = "False"
              ELSE pc' = "loop" /\ entailed' = entailed
    /\ UNCHANGED <<alpha_string, clause_strings, clauses, query, support>>
    /\ UNCHANGED <<clause_vars, search_vars>>

\* One iteration of the while loop of pl_resolution
Round ==
    /\ pc = "loop"
    /\ LET new   == round_new(input_clauses)
           unsat == is_unsatisfiable \/ round_empty(input_clauses)
           diff  == diff_clauses(new, input_clauses)
       IN  /\ output_clauses' = Append(output_clauses, diff)
           /\ input_clauses' = input_clauses \cup new
           /\ is_unsatisfiable' = unsat
           /\ IF unsat THEN pc' = "done" /\ entailed' = "True"
              ELSE IF diff = {} THEN pc' = "done" /\ entailed' = "False"
              ELSE pc' = "loop" /\ entailed' = entailed
    /\ UNCHANGED <<alpha_string, clause_strings, clauses, query, support>>
    /\ UNCHANGED <<clause_vars, search_vars>>

Next == Build \/ Enter \/ Round

Spec == Init /\ [][Next]_vars

\* ------------------------------------- main() on raw lines of an input file
\* Every line of at most MaxChars characters; clause_strings holds at most
\* one line.
Chars == Symbols \cup {" ", "-", "O", "R"}
RECURSIVE lines_up_to(_)
lines_up_to(k) ==
    IF k = 0 THEN {<<>>}
    ELSE LET shorter == lines_up_to(k - 1)
         IN  shorter \cup {Append(t, c) : t \in shorter, c \in Chars}
RawLines == lines_up_to(MaxChars)

InitBuild ==
    /\ alpha_string \in RawLines
    /\ clause_strings \in {<<>>} \cup {<<t>> : t \in RawLines}
    /\ query = <<>> /\ support = <<>>
    /\ clauses = <<>>
    /\ input_clauses = {} /\ output_clauses = <<>> /\ is_unsatisfiable = FALSE
    /\ entailed = "None"
    /\ pc = "build"
    /\ ClauseIdle /\ SearchIdle

SpecBuild == InitBuild /\ [][Next]_vars

\* --------------------------------------------- Clause objects on their own
\* Two Clause() objects; add_literal and clean are called on them.
InitClause ==
    /\ clause1 = <<>> /\ clause2 = <<>> /\ resolved = NoResult
    /\ pc = "clause"
    /\ LogicIdle /\ SearchIdle

\* clause1.add_literal(l)
AddLiteral1 ==
    /\ pc = "clause" /\ Len(clause1) < MaxAdds
    /\ \E l \in Literals : clause1' = Append(clause1, l)
    /\ UNCHANGED <<clause2, resolved, pc, logic_vars, search_vars>>

\* clause2.add_literal(l)
AddLiteral2 ==
    /\ pc = "clause" /\ Len(clause2) < MaxAdds
    /\ \E l \in Literals : clause2' = Append(clause2, l)
    /\ UNCHANGED <<clause1, resolved, pc, logic_vars, search_vars>>

\* clause1.clean()
Clean1 ==
    /\ pc = "clause"
    /\ clause1' = clean(clause1)
    /\ UNCHANGED <<clause2, resolved, pc, logic_vars, search_vars>>

\* clause2.clean()
Clean2 ==
    /\ pc = "clause"
    /\ clause2' = clean(clause2)
    /\ UNCHANGED <<clause1, resolved, pc, logic_vars, search_vars>>

NextClause == AddLiteral1 \/ AddLiteral2 \/ Clean1 \/ Clean2

SpecClause == InitClause /\ [][NextClause]_vars

\* ------------------------------------------- Clause.resolve on its own
\* The clauses parse_clause and merge return: cleaned lists, the empty one
\* included.
CleanClauses == {clean(c) : c \in ClauseTexts \cup {<<>>}}

InitResolve ==
    /\ clause1 \in CleanClauses /\ clause2 \in CleanClauses
    /\ resolved = NoResult
    /\ pc = "call"
    /\ LogicIdle /\ SearchIdle

\* Clause.resolve(clause1, clause2)
Resolve ==
    /\ pc = "call"
    /\ resolved' = resolve(clause1, clause2)
    /\ pc' = "returned"
    /\ UNCHANGED <<clause1, clause2, logic_vars, search_vars>>

SpecResolve == InitResolve /\ [][Resolve]_vars

\* ------------------------------------------------- Lab01: UCS and GBFS
\* Nodes are 0 .. len(matrix)-1; matrix[u][v] = 0 means no edge.
Nodes == 0..(NumNodes - 1)
Matrices == [Nodes -> [Nodes -> 0..MaxWeight]]

\* dict: a function on its keys.  d.get(k) is None for a missing key.
dict_set(d, k, v) == [x \in (DOMAIN d) \cup {k} |-> IF x = k THEN v ELSE d[x]]
dict_get(d, k) == IF k \in DOMAIN d THEN d[k] ELSE None
empty_dict == <<>>

\* queue.PriorityQueue of (priority, node) tuples: get() removes the least
\* tuple.  Neither function puts the same tuple twice, so a set holds it.
tuple_lt(a, b) == a[1] < b[1] \/ (a[1] = b[1] /\ a[2] < b[2])
queue_get(q) == CHOOSE a \in q : \A b \in q \ {a} : tuple_lt(a, b)

\* The closing loop of both functions:
\*   while end is not None: path.insert(0, end); end = visited.get(end)
RECURSIVE backtrack(_, _, _)
backtrack(p, e, vis) ==
    IF e = None THEN p ELSE backtrack(<<e>> \o p, dict_get(vis, e), vis)

\* UCS: the for loop over child, from child on; st = [costs, frontier, visited]
RECURSIVE ucs_children(_, _, _, _)
ucs_children(st, current_cost, current_node, child) ==
    IF child >= NumNodes THEN st
    ELSE LET w == matrix[current_node][child]
             new_cost == current_cost + w
             st2 == IF w # 0 /\ (child \notin DOMAIN st.costs \/ new_cost < st.costs[child])
                    THEN [costs    |-> dict_set(st.costs, child, new_cost),
                          frontier |-> st.frontier \cup {<<new_cost, child>>},
                          visited  |-> dict_set(st.visited, child, current_node)]
                    ELSE st
         IN  ucs_children(st2, current_cost, current_node, child + 1)

\* GBFS: the for loop over child, from child on; st = [frontier, visited]
RECURSIVE gbfs_children(_, _, _)
gbfs_children(st, current_node, child) ==
    IF child >= NumNodes THEN st
    ELSE LET st2 == IF matrix[current_node][child] # 0 /\ child \notin DOMAIN st.visited
                    THEN [frontier |-> st.frontier \cup {<<matrix[child][end], child>>},
                          visited  |-> dict_set(st.visited, child, current_node)]
                    ELSE st
         IN  gbfs_children(st2, current_node, child + 1)

InitSearch ==
    /\ matrix \in Matrices
    /\ start \in Nodes
    /\ end \in Nodes
    /\ end_arg = end
    /\ frontier = {<<0, start>>}
    /\ visited = empty_dict
    /\ path = <<>>
    /\ LogicIdle /\ ClauseIdle

\* UCS(matrix, start, end), up to the while loop
InitUCS == InitSearch /\ costs = dict_set(empty_dict, start, 0) /\ pc = "ucs"

\* One iteration of the while loop of UCS
UCS_Iterate ==
    /\ pc = "ucs" /\ frontier # {}
    /\ LET got == queue_get(frontier)
           current_cost == got[1]
           current_node == got[2]
           rest == frontier \ {got}
       IN  IF current_node = end
           THEN /\ pc' = "ucs_break"
                /\ frontier' = rest
                /\ UNCHANGED <<visited, costs>>
           ELSE IF current_node \notin DOMAIN visited
           THEN LET st == ucs_children([costs    |-> costs,
                                        frontier |-> rest,
                                        visited  |-> dict_set(visited, current_node, None)],
                                       current_cost, current_node, 0)
                IN  /\ costs' = st.costs
                    /\ frontier' = st.frontier
                    /\ visited' = st.visited
                    /\ pc' = pc
           ELSE /\ frontier' = rest
                /\ UNCHANGED <<visited, costs, pc>>
    /\ UNCHANGED <<matrix, start, end, end_arg, path>>
    /\ UNCHANGED <<logic_vars, clause_vars>>

\* UCS after its while loop: the path is walked back and returned
UCS_Return ==
    /\ pc = "ucs_break" \/ (pc = "ucs" /\ frontier = {})
    /\ path' = backtrack(path, end, visited)
    /\ end' = None
    /\ pc' = "returned"
    /\ UNCHANGED <<matrix, start, end_arg, frontier, visited, costs>>
    /\ UNCHANGED <<logic_vars, clause_vars>>

NextUCS == UCS_Iterate \/ UCS_Return

SpecUCS == InitUCS /\ [][NextUCS]_vars

\* GBFS(matrix, start, end), up to the while loop
InitGBFS == InitSearch /\ costs = empty_dict /\ pc = "gbfs"

\* One iteration of the while loop of GBFS
GBFS_Iterate ==
    /\ pc = "gbfs" /\ frontier # {}
    /\ LET got == queue_get(frontier)
           current_node == got[2]
           rest == frontier \ {got}
       IN  IF current_node = end
           THEN /\ pc' = "gbfs_break"
                /\ frontier' = rest
                /\ UNCHANGED visited
           ELSE IF current_node \notin DOMAIN visited
           THEN LET st == gbfs_children([frontier |-> rest,
                                         visited  |-> dict_set(visited, current_node, None)],
                                        current_node, 0)
                IN  /\ frontier' = st.frontier
                    /\ visited' = st.visited
                    /\ pc' = pc
           ELSE /\ frontier' = rest
                /\ UNCHANGED <<visited, pc>>
    /\ UNCHANGED <<matrix, start, end, end_arg, path, costs>>
    /\ UNCHANGED <<logic_vars, clause_vars>>

\* GBFS after its while loop
GBFS_Return ==
    /\ pc = "gbfs_break" \/ (pc = "gbfs" /\ frontier = {})
    /\ path' = backtrack(path, end, visited)
    /\ end' = None
    /\ pc' = "returned"
    /\ UNCHANGED <<matrix, start, end_arg, frontier, visited, costs>>
    /\ UNCHANGED <<logic_vars, clause_vars>>

NextGBFS == GBFS_Iterate \/ GBFS_Return

SpecGBFS == InitGBFS /\ [][NextGBFS]_vars

\* =================================================================== claims
\* Propositional semantics, stated on sets of literals and independent of
\* the Clause methods above.
holds_in(v, l) == v[l.symbol] # l.negation
Satisfiable(CS) ==
    \E v \in [Symbols -> BOOLEAN] : \A c \in CS : \E l \in c : holds_in(v, l)
complementary(L) == \E l \in L : [symbol |-> l.symbol, negation |-> ~l.negation] \in L
Resolvents(L1, L2) ==
    {r \in {(L1 \ {l1}) \cup (L2 \ {l2}) :
              <<l1, l2>> \in {p \in L1 \X L2 :
                                p[1].symbol = p[2].symbol /\ p[1].negation # p[2].negation}} :
        ~complementary(r)}
lits(c) == Range(c)
lit_sets(S) == {lits(c) : c \in S}
rounds == Len(output_clauses)

\* The support clauses together with the negation of every literal of alpha
SupportAndNotAlpha ==
    {lits(support[i]) : i \in 1..Len(support)}
        \cup {{[symbol |-> query[j].symbol, negation |-> ~query[j].negation]} :
                j \in 1..Len(query)}

\* C1: once build_knowledge_base and pl_resolution have run on a query that
\* is a disjunction of literals and a list of support clauses, the verdict
\* is True exactly when the support clauses together with the negation of
\* every literal of the query are unsatisfiable.
C1_EntailedIffUnsatisfiable ==
    pc = "done" => (entailed = "True" <=> ~Satisfiable(SupportAndNotAlpha))

\* A disjunctive query that is entailed only after a second round, and one
\* that is not entailed.
C1_Witness ==
    /\ pc = "done" /\ entailed = "True" /\ Len(query) = 2 /\ rounds = 2
    /\ Len(support) = 1

\* C2: the run halts at the end of the first round that produces the empty
\* clause and reports True: the empty clause is in no recorded round but the
\* last, a round holding it is the last one of a finished run whose verdict
\* is True, and the verdict is True only if the last round holds it.
C2_HaltsOnFirstEmptyClause ==
    /\ \A k \in 1..(rounds - 1) : <<>> \notin output_clauses[k]
    /\ (rounds > 0 /\ <<>> \in output_clauses[rounds])
          => (pc = "done" /\ entailed = "True")
    /\ entailed = "True" => (rounds > 0 /\ <<>> \in output_clauses[rounds])

\* The empty clause derived in the second round of a run.
C2_Witness ==
    /\ pc = "done" /\ entailed = "True" /\ rounds = 2
    /\ <<>> \in output_clauses[2] /\ output_clauses[1] # {}

\* C3: the verdict is False exactly when a round added nothing new and no
\* round produced the empty clause; the empty round is then recorded last
\* and every round before it is non-empty.
C3_FalseExactlyOnClosure ==
    /\ entailed = "False" =>
          /\ pc = "done" /\ rounds > 0
          /\ output_clauses[rounds] = {}
          /\ \A k \in 1..(rounds - 1) : output_clauses[k] # {}
          /\ \A k \in 1..rounds : <<>> \notin output_clauses[k]
          /\ ~is_unsatisfiable
    /\ (rounds > 0 /\ output_clauses[rounds] = {}
           /\ \A k \in 1..rounds : <<>> \notin output_clauses[k])
          => (pc = "done" /\ entailed = "False")

\* A False verdict after two rounds that added clauses.
C3_Witness ==
    /\ pc = "done" /\ entailed = "False" /\ rounds = 3
    /\ output_clauses[3] = {} /\ output_clauses[1] # {} /\ output_clauses[2] # {}

\* The symbols of the knowledge base
kb_symbols == {l.symbol : l \in UNION {lits(c) : c \in Range(clauses)}}

\* C4: over n distinct symbols pl_resolution terminates, it runs at most
\* 2^n rounds, and the working set never shrinks from one round to the next.
\* Termination is stated by its measure: every step of the loop records one
\* more round, the rounds never exceed 2^n, and a run that has not returned
\* stands where Build, Enter or Round can take its next step.
C4_TerminatesWithinBound ==
    /\ [](rounds <= 2 ^ Cardinality(kb_symbols))
    /\ [][input_clauses \subseteq input_clauses']_vars
    /\ [][pc = "loop" => Len(output_clauses') = rounds + 1]_vars
    /\ [](pc \in {"done", "raised"} \/ pc \in {"build", "resolve", "loop"})

\* A run that used three rounds over two symbols.
C4_Witness ==
    pc = "done" /\ rounds = 3 /\ Cardinality(kb_symbols) = 2

\* The working set as it stood when round k began
working_set(k) == Range(clauses) \cup UNION {output_clauses[j] : j \in 1..(k - 1)}
all_resolvents(W) ==
    UNION {Resolvents(p[1], p[2]) : p \in {q \in W \X W : q[1] # q[2]}}

\* C10: the k-th recorded round is exactly the resolvents of all pairs of
\* distinct clauses of the working set at the start of round k, less that
\* working set; so no clause is in two rounds and no clause of the initial
\* knowledge base is in any round.
C10_RoundIsNewResolvents ==
    /\ \A k \in 1..rounds :
          /\ lit_sets(output_clauses[k])
                = all_resolvents(lit_sets(working_set(k))) \ lit_sets(working_set(k))
          /\ \A c \in output_clauses[k] : c = sorted(lits(c))
    /\ \A j, k \in 1..rounds : j # k => output_clauses[j] \cap output_clauses[k] = {}
    /\ \A k \in 1..rounds : output_clauses[k] \cap Range(clauses) = {}

\* Two rounds that each added clauses, the second resolving a pair the
\* first had already resolved.
C10_Witness ==
    /\ rounds >= 2 /\ output_clauses[1] # {} /\ output_clauses[2] # {}
    /\ round_new(input_clauses) \cap Range(clauses) # {}

\* The pieces parse_literal is handed for one line of the input
tokens(line) == split_OR(strip(line))
has_empty_token(line) == \E i \in 1..Len(tokens(line)) : strip(tokens(line)[i]) = <<>>

\* C5: when the query or a support clause holds a token that is empty after
\* stripping, build_knowledge_base fails and the knowledge base's clause
\* list holds none of the clauses parsed earlier in the call.
C5_FailedBuildLeavesNoClauses ==
    (pc # "build" /\ \E line \in {alpha_string} \cup Range(clause_strings) :
                         has_empty_token(line))
        => (pc = "raised" /\ clauses = <<>>)

\* C6: two Clause objects whose literal lists hold the same set of literals,
\* in whatever order they were added, compare equal and have the same hash.
C6_SameLiteralsEqualAndHashEqual ==
    lits(clause1) = lits(clause2)
        => (Clause_eq(clause1, clause2) /\ Clause_hash(clause1) = Clause_hash(clause2))

\* Graph notions, independent of the two searches
edge(u, v) == matrix[u][v] # 0
RECURSIVE reached(_, _)
reached(R, k) ==
    IF k = 0 THEN R
    ELSE reached(R \cup {v \in Nodes : \E u \in R : edge(u, v)}, k - 1)
reachable(u, v) == v \in reached({u}, NumNodes)
is_walk(p) == \A i \in 1..(Len(p) - 1) : edge(p[i], p[i + 1])
RECURSIVE walk_cost(_)
walk_cost(p) ==
    IF Len(p) <= 1 THEN 0 ELSE matrix[p[1]][p[2]] + walk_cost(Tail(p))
RECURSIVE node_lists(_)
node_lists(k) ==
    IF k = 1 THEN {<<n>> : n \in Nodes}
    ELSE LET shorter == node_lists(k - 1)
         IN  shorter \cup {Append(p, n) : p \in shorter, n \in Nodes}
walks(u, v) ==
    {p \in node_lists(NumNodes) : p[1] = u /\ p[Len(p)] = v /\ is_walk(p)}
joins(p, u, v) == p # <<>> /\ p[1] = u /\ p[Len(p)] = v /\ is_walk(p)

\* C7: with positive edge weights and end reachable from start, UCS returns
\* a path from start to end along edges of the matrix whose total weight is
\* least among all paths from start to end.
C7_UCS_ReturnsCheapestPath ==
    (pc = "returned" /\ reachable(start, end_arg))
        => /\ joins(path, start, end_arg)
           /\ \A p \in walks(start, end_arg) : walk_cost(path) <= walk_cost(p)

\* C8: with end reachable from start at any number of hops, GBFS returns a
\* path from start to end along edges of the matrix, and every key of the
\* returned visited map but start maps to an adjacent node visited before it.
C8_GBFS_ReturnsFoundPath ==
    (pc = "returned" /\ reachable(start, end_arg))
        => /\ joins(path, start, end_arg)
           /\ \A k \in (DOMAIN visited) \ {start} :
                 /\ visited[k] \in DOMAIN visited
                 /\ edge(visited[k], k)

\* C9: for cleaned clauses a and b, Clause.resolve(a, b) returns exactly the
\* cleaned clauses (a minus l1) union (b minus l2), over every opposite pair
\* l1 in a, l2 in b, that do not hold a symbol together with its negation;
\* and its boolean result is True exactly when the empty clause is returned.
C9_ResolveReturnsAllResolvents ==
    pc = "returned" =>
        /\ lit_sets(resolved.resolvents) = Resolvents(lits(clause1), lits(clause2))
        /\ \A c \in resolved.resolvents : c = sorted(lits(c))
        /\ resolved.is_empty <=> (<<>> \in resolved.resolvents)

\* Two two-literal clauses with one opposite pair and a two-literal resolvent.
C9_Witness ==
    /\ pc = "returned" /\ Len(clause1) = 2 /\ Len(clause2) = 2
    /\ \E c \in resolved.resolvents : Len(c) = 2
    /\ ~resolved.is_empty

====
